---- MODULE Spec2Model ----
(***************************************************************************)
(* State-machine model of the EcoCompute governance backend                *)
(* (backend/main.py, backend/schemas.py).                                  *)
(*                                                                         *)
(* The store is the SQLite file with its two tables.  Requests are         *)
(* numbered in order of arrival and each has its own SQLAlchemy session    *)
(* (get_db).  A registration is two steps: the handler up to its           *)
(* db.commit() call, and the commit itself, which either persists the      *)
(* session's pending rows in one transaction or raises; commits of         *)
(* requests in flight happen in any order.  Strings whose characters the   *)
(* code inspects (region_id, model_id) are sequences of one-character      *)
(* strings.  A row's timestamp is the reading of a logical clock that      *)
(* ticks at every commit.                                                  *)
(***************************************************************************)
EXTENDS Integers, Sequences, FiniteSets, TLC

VARIABLES audit, models, now, nreq, pc, req, user, session, err, resp, ledger

vars == <<audit, models, now, nreq, pc, req, user, session, err, resp, ledger>>

\* ---- bounds of the model ----
MaxRequests == 3

Requests == 1..MaxRequests

\* ---- strings as character sequences ----
east == <<"e", "a", "s", "t">>
central == <<"c", "e", "n", "t", "r", "a", "l">>
critical == <<"c", "r", "i", "t", "i", "c", "a", "l">>

UsEast1 == <<"u", "s", "-", "e", "a", "s", "t", "-", "1">>
UsWest1 == <<"u", "s", "-", "w", "e", "s", "t", "-", "1">>
EuCentral1 == <<"e", "u", "-", "c", "e", "n", "t", "r", "a", "l", "-", "1">>
UsEastUpper == <<"U", "S", "-", "E", "A", "S", "T", "-", "1">>

CriticalModel7 == <<"c", "r", "i", "t", "i", "c", "a", "l", "-", "m", "o", "d", "e", "l", "-", "7">>
MixedCriticalDb == <<"p", "r", "o", "d", "-", "C", "r", "i", "t", "i", "c", "a", "L", "-", "d", "b">>
Model7 == <<"m", "o", "d", "e", "l", "-", "7">>
AlmostCritical == <<"c", "r", "i", "t", "i", "c", "a", "-", "l">>

\* str.lower() on the characters that occur in requests
ToLower == [A |-> "a", B |-> "b", C |-> "c", D |-> "d", E |-> "e", F |-> "f",
            G |-> "g", H |-> "h", I |-> "i", J |-> "j", K |-> "k", L |-> "l",
            M |-> "m", N |-> "n", O |-> "o", P |-> "p", Q |-> "q", R |-> "r",
            S |-> "s", T |-> "t", U |-> "u", V |-> "v", W |-> "w", X |-> "x",
            Y |-> "y", Z |-> "z"]

LowerIdentity(s) == s

Lower(s) == [i \in 1..Len(s) |-> IF s[i] \in DOMAIN ToLower THEN ToLower[s[i]] ELSE s[i]]

\* Python's `sub in s` on strings
Contains(sub, s) ==
    \E i \in 0..(Len(s) - Len(sub)) : SubSeq(s, i + 1, i + Len(sub)) = sub

\* ---- request inputs ----
Body(n, r, t, c) == [name |-> n, region_id |-> r, type |-> t, criticality |-> c]

BodyScore(n, r, t, c, e) ==
    [name |-> n, region_id |-> r, type |-> t, criticality |-> c, efficiency_score |-> e]

NoHeader == [present |-> FALSE, value |-> ""]
EmptyHeader == [present |-> TRUE, value |-> ""]
BearerHeader == [present |-> TRUE, value |-> "Bearer t"]

Register(body, authorization) == [body |-> body, authorization |-> authorization]

RegisterRequests ==
    { Register(Body("m1", UsEast1, "Large", "High"), NoHeader),
      Register(Body("m2", UsWest1, "Large", "High"), BearerHeader),
      Register(BodyScore("m3", EuCentral1, "Large", "High", 101), EmptyHeader),
      Register(Body("m4", UsEastUpper, "Large", "High"), NoHeader),
      Register(Body("m1", UsEast1, "Small", "High"), BearerHeader),
      Register(BodyScore("m5", EuCentral1, "Large", "Low", 100), NoHeader),
      Register(Body("m6", UsWest1, "Large", "Urgent"), BearerHeader),
      Register(BodyScore("m7", UsEast1, "Large", "High", 0), BearerHeader),
      Register(BodyScore("m8", UsEast1, "Small", "Medium", 0 - 1), EmptyHeader),
      Register([name |-> "m9", region_id |-> UsWest1, type |-> "Small"], NoHeader) }

ModelIds == {CriticalModel7, MixedCriticalDb, Model7, AlmostCritical}

EvaluateBodies ==
    { [action |-> "sleep", model_id |-> m] : m \in ModelIds }
    \cup { [action |-> "wake", model_id |-> m, context |-> "override"] : m \in ModelIds }

NoReq == [kind |-> "none"]
NoResp == [status |-> 0]

\* ---- schemas (main.py) ----
ModelCreateRequired == {"name", "region_id", "type", "criticality"}

\* main.py's ModelCreate: four required strings, efficiency_score: int = 0
ValidModelCreate(body) == ModelCreateRequired \subseteq DOMAIN body

ParseModelCreate(body) ==
    [name |-> body.name, region_id |-> body.region_id, type |-> body.type,
     criticality |-> body.criticality,
     efficiency_score |->
        IF "efficiency_score" \in DOMAIN body THEN body.efficiency_score ELSE 0]

\* main.py's PolicyCheckRequest: action and model_id; other keys are dropped
ParsePolicyCheckRequest(body) == [action |-> body.action, model_id |-> body.model_id]

\* ---- identity stub ----
VerifyToken(authorization) ==
    IF ~authorization.present \/ authorization.value = ""
    THEN "anon-user"
    ELSE "authenticated-user"

\* ---- policy ----
IsDirtyRegionEastOnly(region_id) == Contains(east, region_id)

IsDirtyRegion(region_id) == Contains(east, region_id) \/ Contains(central, region_id)

PolicyViolationAnyRegion(model) ==
    model.type = "Large" /\ model.criticality = "High"

PolicyViolation(model) ==
    model.type = "Large" /\ model.criticality = "High" /\ IsDirtyRegion(model.region_id)

ViolationError ==
    "Policy Violation: Cannot deploy High Criticality Large models to non-green regions."

RegisteredMessage == "Model registered securely in Governance Node."

StorageError == "(sqlite3.OperationalError) database is locked"

\* ---- pending objects of a session (db.add) ----
LogObject(action, user_id, details) ==
    [table |-> "audit_logs", action |-> action, user_id |-> user_id, details |-> details]

ModelObject(model) ==
    [table |-> "registered_models", name |-> model.name, criticality |-> model.criticality,
     type |-> model.type, region |-> model.region_id]

\* the model object is staged before the policy check
DenyRowsWithModel(model, u) ==
    << ModelObject(model),
       LogObject("VIOLATION_DETECTED", u,
                 [reason |-> "High Criticality Large Model in Dirty Region", model |-> model]) >>

DenyRows(model, u) ==
    << LogObject("VIOLATION_DETECTED", u,
                 [reason |-> "High Criticality Large Model in Dirty Region", model |-> model]) >>

AllowRowsNoLog(model, u) == << ModelObject(model) >>

AllowRows(model, u) ==
    << ModelObject(model), LogObject("REGISTER_MODEL", u, [model |-> model]) >>

PendingModels(s) == SelectSeq(s, LAMBDA o : o.table = "registered_models")
PendingLogs(s) == SelectSeq(s, LAMBDA o : o.table = "audit_logs")

\* ---- the store: INSERT at flush, ids from the INTEGER PRIMARY KEY ----
RECURSIVE MaxId(_)
MaxId(table) ==
    IF table = <<>> THEN 0
    ELSE LET m == MaxId(Tail(table)) IN IF Head(table).id > m THEN Head(table).id ELSE m

NextId(table) == MaxId(table) + 1

ModelRow(o, id) ==
    [id |-> id, name |-> o.name, criticality |-> o.criticality, type |-> o.type,
     region |-> o.region]

LogRow(o, id, ts) ==
    [id |-> id, timestamp |-> ts, action |-> o.action, user_id |-> o.user_id,
     details |-> o.details]

InsertModels(table, pending) ==
    table \o [i \in 1..Len(pending) |-> ModelRow(pending[i], NextId(table) + i - 1)]

\* Session.merge() semantics on a stale identity: the last row is overwritten
InsertLogsMerge(table, pending, ts) ==
    SubSeq(table, 1, Len(table) - 1)
        \o [i \in 1..Len(pending) |-> LogRow(pending[i], MaxId(table) + i - 1, ts)]

InsertLogs(table, pending, ts) ==
    table \o [i \in 1..Len(pending) |-> LogRow(pending[i], NextId(table) + i - 1, ts)]

\* one session shared by all requests instead of one per request
RECURSIVE ConcatSessions(_)
ConcatSessions(w) ==
    IF w = 0 THEN <<>> ELSE ConcatSessions(w - 1) \o session[w]

RowsToFlushShared(p) == ConcatSessions(MaxRequests)

\* what p's db.commit() flushes: the pending objects of p's own session
RowsToFlush(p) == session[p]

\* ---- responses ----
HealthPayload == [status |-> "healthy", mode |-> "standalone (sqlite)"]

APIResponse(success, data, error) ==
    [status |-> 200, success |-> success, data |-> data, error |-> error]

PolicyCheckResponse(allowed, reason) ==
    [status |-> 200, allowed |-> allowed, reason |-> reason]

ValidationError == [status |-> 422]
InternalServerError == [status |-> 500]

NoErr == [text |-> "", caught |-> FALSE]

EvaluateAction(request) ==
    IF Contains(critical, Lower(request.model_id))
    THEN PolicyCheckResponse(FALSE, "Security Policy: Critical models cannot be auto-slept.")
    ELSE PolicyCheckResponse(TRUE, "Action permitted.")

\* ---- initial state: empty tables (create_all), no request in flight ----
Init ==
    /\ audit = <<>>
    /\ models = <<>>
    /\ now = 0
    /\ nreq = 0
    /\ pc = [p \in Requests |-> "new"]
    /\ req = [p \in Requests |-> NoReq]
    /\ user = [p \in Requests |-> ""]
    /\ session = [p \in Requests |-> <<>>]
    /\ err = [p \in Requests |-> NoErr]
    /\ resp = [p \in Requests |-> NoResp]
    /\ ledger = <<>>

\* GET /
HealthCheck(p) ==
    /\ pc[p] = "new"
    /\ p = nreq + 1
    /\ nreq' = nreq + 1
    /\ req' = [req EXCEPT ![p] = [kind |-> "health"]]
    /\ resp' = [resp EXCEPT ![p] = [status |-> 200, payload |-> HealthPayload]]
    /\ pc' = [pc EXCEPT ![p] = "done"]
    /\ UNCHANGED <<audit, models, now, user, session, err, ledger>>

\* POST /api/v1/policy/evaluate: the session of get_db is opened and closed unused
EvaluatePolicyLogged(p, body) ==
    /\ pc[p] = "new"
    /\ p = nreq + 1
    /\ nreq' = nreq + 1
    /\ req' = [req EXCEPT ![p] = [kind |-> "evaluate", body |-> body]]
    /\ resp' = [resp EXCEPT ![p] = EvaluateAction(ParsePolicyCheckRequest(body))]
    /\ pc' = [pc EXCEPT ![p] = "done"]
    /\ audit' = InsertLogs(audit, <<LogObject("POLICY_EVALUATED", "anon-user", body)>>, now)
    /\ UNCHANGED <<models, now, user, session, err, ledger>>

EvaluatePolicy(p, body) ==
    /\ pc[p] = "new"
    /\ p = nreq + 1
    /\ nreq' = nreq + 1
    /\ req' = [req EXCEPT ![p] = [kind |-> "evaluate", body |-> body]]
    /\ resp' = [resp EXCEPT ![p] = EvaluateAction(ParsePolicyCheckRequest(body))]
    /\ pc' = [pc EXCEPT ![p] = "done"]
    /\ UNCHANGED <<audit, models, now, user, session, err, ledger>>

\* POST /api/v1/models/register, up to the handler's db.commit() call:
\* body validation, the dependencies, the policy check and the db.add calls
RegisterModel(p, body, authorization) ==
    /\ pc[p] = "new"
    /\ p = nreq + 1
    /\ nreq' = nreq + 1
    /\ req' = [req EXCEPT ![p] = [kind |-> "register", body |-> body]]
    /\ IF ~ValidModelCreate(body)
       THEN /\ resp' = [resp EXCEPT ![p] = ValidationError]
            /\ pc' = [pc EXCEPT ![p] = "done"]
            /\ UNCHANGED <<user, session>>
       ELSE LET model == ParseModelCreate(body)
                u == VerifyToken(authorization)
            IN /\ user' = [user EXCEPT ![p] = u]
               /\ IF PolicyViolation(model)
                  THEN /\ session' = [session EXCEPT ![p] = DenyRows(model, u)]
                       /\ pc' = [pc EXCEPT ![p] = "deny_commit"]
                  ELSE /\ session' = [session EXCEPT ![p] = AllowRows(model, u)]
                       /\ pc' = [pc EXCEPT ![p] = "allow_commit"]
               /\ UNCHANGED resp
    /\ UNCHANGED <<audit, models, now, err, ledger>>

\* db.commit() succeeds: the pending rows are inserted in one transaction
CommitOk(p) ==
    /\ pc[p] \in {"deny_commit", "allow_commit"}
    /\ now' = now + 1
    /\ models' = InsertModels(models, PendingModels(RowsToFlush(p)))
    /\ audit' = InsertLogs(audit, PendingLogs(RowsToFlush(p)), now)
    /\ ledger' = Append(ledger, [n |-> p, rows |-> session[p]])
    /\ session' = [session EXCEPT ![p] = <<>>]
    /\ resp' = [resp EXCEPT ![p] =
                  IF pc[p] = "deny_commit"
                  THEN APIResponse(FALSE, "None", ViolationError)
                  ELSE APIResponse(TRUE, RegisteredMessage, "None")]
    /\ pc' = [pc EXCEPT ![p] = "done"]
    /\ UNCHANGED <<nreq, req, user, err>>

\* db.commit() raises.  On the allow path the handler's except clause rolls back
\* and answers; on the deny path the commit is outside the try, the exception
\* leaves the handler and get_db's finally closes the session.
CommitFail(p) ==
    /\ pc[p] \in {"deny_commit", "allow_commit"}
    /\ session' = [session EXCEPT ![p] = <<>>]
    /\ IF pc[p] = "allow_commit"
       THEN /\ err' = [err EXCEPT ![p] = [text |-> StorageError, caught |-> TRUE]]
            /\ resp' = [resp EXCEPT ![p] = APIResponse(FALSE, "None", StorageError)]
       ELSE /\ err' = [err EXCEPT ![p] = [text |-> StorageError, caught |-> FALSE]]
            /\ resp' = [resp EXCEPT ![p] = InternalServerError]
    /\ pc' = [pc EXCEPT ![p] = "done"]
    /\ UNCHANGED <<audit, models, now, nreq, req, user, ledger>>

Next ==
    \E p \in Requests :
        \/ HealthCheck(p)
        \/ \E body \in EvaluateBodies : EvaluatePolicy(p, body)
        \/ \E r \in RegisterRequests : RegisterModel(p, r.body, r.authorization)
        \/ CommitOk(p)
        \/ CommitFail(p)

Spec == Init /\ [][Next]_vars

\* ---- schemas.py: the validated ModelCreate, which main.py does not import ----
SchemaModelCreate(body) ==
    /\ ModelCreateRequired \subseteq DOMAIN body
    /\ body.criticality \in {"Low", "Medium", "High"}
    /\ "efficiency_score" \in DOMAIN body =>
          (body.efficiency_score >= 0 /\ body.efficiency_score <= 100)

\* ======================= properties =======================

Range(f) == {f[i] : i \in DOMAIN f}

\* sub occurs in s at some position, character by character
Occurs(sub, s) ==
    \E i \in 1..Len(s) :
        \A j \in 1..Len(sub) : i + j - 1 <= Len(s) /\ s[i + j - 1] = sub[j]

\* sub (lower case) occurs in s in any mix of cases
OccursAnyCase(sub, s) ==
    \E i \in 1..Len(s) :
        \A j \in 1..Len(sub) :
            /\ i + j - 1 <= Len(s)
            /\ \/ s[i + j - 1] = sub[j]
               \/ s[i + j - 1] \in DOMAIN ToLower /\ ToLower[s[i + j - 1]] = sub[j]

\* the deny conjunction, on the body as sent
DenyCase(body) ==
    /\ body.type = "Large"
    /\ body.criticality = "High"
    /\ Occurs(east, body.region_id) \/ Occurs(central, body.region_id)

InHandler(p) == pc[p] \in {"deny_commit", "allow_commit"}

\* request p's step ends its handler
Finishes(p) == InHandler(p) /\ pc'[p] = "done"

\* request p's step starts it
Starts(p) == pc[p] = "new" /\ pc'[p] # "new"

Failed(e) == e.text # ""

AddsOneViolationLog ==
    /\ Len(audit') = Len(audit) + 1
    /\ SubSeq(audit', 1, Len(audit)) = audit
    /\ audit'[Len(audit')].action = "VIOLATION_DETECTED"
    /\ models' = models

AddsOneModelAndLog(body) ==
    /\ Len(models') = Len(models) + 1
    /\ SubSeq(models', 1, Len(models)) = models
    /\ LET m == models'[Len(models')]
       IN /\ m.name = body.name
          /\ m.criticality = body.criticality
          /\ m.type = body.type
          /\ m.region = body.region_id
    /\ Len(audit') = Len(audit) + 1
    /\ SubSeq(audit', 1, Len(audit)) = audit
    /\ audit'[Len(audit')].action = "REGISTER_MODEL"

IsViolationResponse(r) ==
    r.status = 200 /\ r.success = FALSE /\ r.error = ViolationError

IsSuccessResponse(r) == r.status = 200 /\ r.success = TRUE

\* C1 as stated: every registration the handler receives with type Large,
\* criticality High and a region containing "east" or "central" is answered
\* success:false with the policy-violation reason and adds exactly one
\* VIOLATION_DETECTED audit row and no model row  (fails when db.commit() raises)
C1_Original ==
    [][\A p \in Requests :
          /\ (Starts(p) /\ req'[p].kind = "register") => UNCHANGED <<audit, models>>
          /\ (Finishes(p) /\ DenyCase(req[p].body)) =>
                (IsViolationResponse(resp'[p]) /\ AddsOneViolationLog)]_vars

\* C1 amended: such a request, when its db.commit() succeeds, is answered
\* success:false with the policy-violation reason and adds exactly one
\* VIOLATION_DETECTED audit row and no model row; when the commit raises it adds
\* no row and the policy-violation response is not sent
C1_DenyPath ==
    [][\A p \in Requests :
          /\ (Starts(p) /\ req'[p].kind = "register") => UNCHANGED <<audit, models>>
          /\ (Finishes(p) /\ DenyCase(req[p].body)) =>
                IF Failed(err'[p])
                THEN UNCHANGED <<audit, models>> /\ ~IsViolationResponse(resp'[p])
                ELSE IsViolationResponse(resp'[p]) /\ AddsOneViolationLog]_vars

C1_Witness ==
    \E p \in Requests :
        /\ pc[p] = "done" /\ req[p].kind = "register"
        /\ ValidModelCreate(req[p].body) /\ DenyCase(req[p].body)
        /\ Occurs(central, req[p].body.region_id)
        /\ ~Failed(err[p]) /\ IsViolationResponse(resp[p])
        /\ \E i \in DOMAIN audit :
              audit[i].action = "VIOLATION_DETECTED" /\ audit[i].details.model.name = req[p].body.name
        /\ models = <<>>

\* C2 as stated: every registration the handler receives outside the deny
\* conjunction is answered success:true and adds exactly one model row (name,
\* criticality, type, region of the request) and exactly one REGISTER_MODEL
\* audit row  (fails when db.commit() raises)
C2_Original ==
    [][\A p \in Requests :
          (Finishes(p) /\ ~DenyCase(req[p].body)) =>
              (IsSuccessResponse(resp'[p]) /\ AddsOneModelAndLog(req[p].body))]_vars

\* C2 amended: such a request, when its db.commit() succeeds, is answered
\* success:true and adds exactly one model row copied from the request and one
\* REGISTER_MODEL audit row; when the commit raises it is answered success:false
\* and adds no row
C2_AllowPath ==
    [][\A p \in Requests :
          /\ (Starts(p) /\ req'[p].kind = "register") => UNCHANGED <<audit, models>>
          /\ (Finishes(p) /\ ~DenyCase(req[p].body)) =>
                IF Failed(err'[p])
                THEN /\ UNCHANGED <<audit, models>>
                     /\ resp'[p].status = 200 /\ resp'[p].success = FALSE
                ELSE IsSuccessResponse(resp'[p]) /\ AddsOneModelAndLog(req[p].body)]_vars

C2_Witness ==
    \E p \in Requests :
        /\ pc[p] = "done" /\ req[p].kind = "register"
        /\ ValidModelCreate(req[p].body) /\ ~DenyCase(req[p].body)
        /\ req[p].body.type = "Large" /\ req[p].body.criticality = "High"
        /\ req[p].body.region_id = UsWest1
        /\ IsSuccessResponse(resp[p])
        /\ \E i \in DOMAIN models : models[i].region = UsWest1 /\ models[i].name = "m2"
        /\ \E i \in DOMAIN audit : audit[i].action = "REGISTER_MODEL"

\* C3: a registration whose criticality is not Low, Medium or High, or whose
\* efficiency_score is outside 0..100, is rejected by validation: the handler
\* is never entered for it and no row is written for it
C3_SchemaRejection ==
    /\ \A p \in Requests :
          (req[p].kind = "register" /\ ~SchemaModelCreate(req[p].body)) =>
              (pc[p] = "done" /\ resp[p] = ValidationError /\ session[p] = <<>>)
    /\ \A i \in DOMAIN audit : SchemaModelCreate(audit[i].details.model)
    /\ \A i \in DOMAIN models : models[i].criticality \in {"Low", "Medium", "High"}

\* C4: every failure of a db.commit() in register_model, on the deny path as
\* on the allow path, is caught by the handler: rolled back, answered
\* success:false with the error text, the store unchanged, and not retried
C4_CommitFailureCaught ==
    [][\A p \in Requests :
          /\ (Finishes(p) /\ Failed(err'[p])) =>
                /\ err'[p].caught
                /\ resp'[p].status = 200
                /\ resp'[p].success = FALSE
                /\ resp'[p].error = err'[p].text
                /\ session'[p] = <<>>
                /\ UNCHANGED <<audit, models>>
          /\ pc[p] = "done" => (pc'[p] = "done" /\ resp'[p] = resp[p])]_vars

\* C5: in every state of the store the number of RegisteredModel rows equals
\* the number of AuditLog rows with action REGISTER_MODEL
C5_ModelAndLogAtomic ==
    Len(models) = Cardinality({i \in DOMAIN audit : audit[i].action = "REGISTER_MODEL"})

C5_Witness ==
    /\ Len(models) >= 1
    /\ \E i \in DOMAIN audit : audit[i].action = "VIOLATION_DETECTED"
    /\ \E p \in Requests : Failed(err[p]) /\ err[p].caught

\* C6: evaluate answers allowed=false with the security-policy reason exactly
\* when model_id contains "critical" in any mix of cases, allowed=true
\* otherwise, and two requests with the same model_id get the same answer
\* whatever their action and context
C6_EvaluateByModelIdOnly ==
    /\ \A p \in Requests :
          req[p].kind = "evaluate" =>
              /\ pc[p] = "done" /\ resp[p].status = 200
              /\ resp[p].allowed = ~OccursAnyCase(critical, req[p].body.model_id)
              /\ ~resp[p].allowed =>
                    resp[p].reason = "Security Policy: Critical models cannot be auto-slept."
    /\ \A p, q \in Requests :
          (req[p].kind = "evaluate" /\ req[q].kind = "evaluate"
              /\ req[p].body.model_id = req[q].body.model_id) => resp[p] = resp[q]

C6_Witness ==
    \E p, q \in Requests :
        /\ req[p].kind = "evaluate" /\ req[q].kind = "evaluate"
        /\ req[p].body.model_id = MixedCriticalDb /\ req[q].body.model_id = MixedCriticalDb
        /\ req[p].body.action # req[q].body.action
        /\ "context" \in DOMAIN req[p].body /\ "context" \notin DOMAIN req[q].body
        /\ ~resp[p].allowed /\ ~resp[q].allowed
        /\ \E r \in Requests :
              req[r].kind = "evaluate" /\ req[r].body.model_id = AlmostCritical /\ resp[r].allowed

\* C7: GET / and POST /api/v1/policy/evaluate, interleaved in any order with
\* registrations, leave both tables (and every session) unchanged, and GET /
\* returns the same payload every time
C7_ReadOnlyEndpoints ==
    /\ [][\A p \in Requests :
            (Starts(p) /\ req'[p].kind \in {"health", "evaluate"}) =>
                UNCHANGED <<audit, models, session>>]_vars
    /\ [](\A p, q \in Requests :
            (req[p].kind = "health" /\ req[q].kind = "health") =>
                (resp[p] = resp[q] /\ resp[p].status = 200))

C7_Witness ==
    /\ audit # <<>>
    /\ \E p, q, r \in Requests :
          /\ req[p].kind = "health" /\ req[q].kind = "register" /\ req[r].kind = "health"
          /\ p < q /\ q < r /\ pc[q] = "done" /\ ~Failed(err[q])

\* C8: the store never holds a RegisteredModel row with type Large,
\* criticality High and a region containing "east" or "central"
C8_NoViolatingModelRow ==
    \A i \in DOMAIN models :
        ~(/\ models[i].type = "Large"
          /\ models[i].criticality = "High"
          /\ Occurs(east, models[i].region) \/ Occurs(central, models[i].region))

C8_Witness ==
    /\ \E i \in DOMAIN models : models[i].type = "Large" /\ models[i].criticality = "High"
    /\ \E i \in DOMAIN models : Occurs(central, models[i].region)
    /\ \E p \in Requests :
          pc[p] = "done" /\ req[p].kind = "register" /\ IsViolationResponse(resp[p])

\* C9: a committed row of either table is never updated or deleted by a later
\* step of any request: it stays in its table with its id and field values
C9_AppendOnly ==
    [][/\ \A r \in Range(audit) : r \in Range(audit')
       /\ \A r \in Range(models) : r \in Range(models')
       /\ Len(audit') >= Len(audit)
       /\ Len(models') >= Len(models)]_vars

C9_Witness ==
    /\ Len(audit) >= 2
    /\ Len(models) >= 1
    /\ \E p \in Requests : Failed(err[p])

RECURSIVE LedgerRows(_)
LedgerRows(k) == IF k = 0 THEN <<>> ELSE LedgerRows(k - 1) \o ledger[k].rows

OwnRows(p, rows) ==
    \A i \in DOMAIN rows :
        IF rows[i].table = "audit_logs"
        THEN /\ rows[i].details.model = ParseModelCreate(req[p].body)
             /\ rows[i].user_id = user[p]
        ELSE /\ rows[i].name = req[p].body.name
             /\ rows[i].region = req[p].body.region_id

\* C10: whatever the interleaving of the requests in flight, the store holds
\* exactly the rows staged by the requests whose commit succeeded, each once
\* and in commit order, with unique ids; the staged rows of a request still in
\* flight are its own and survive the commits and rollbacks of the others
C10_CommitsIsolated ==
    /\ \A i, j \in DOMAIN audit : i # j => audit[i].id # audit[j].id
    /\ \A i, j \in DOMAIN models : i # j => models[i].id # models[j].id
    /\ LET staged == LedgerRows(Len(ledger))
           logs == PendingLogs(staged)
           mods == PendingModels(staged)
       IN /\ Len(audit) = Len(logs)
          /\ \A i \in DOMAIN audit :
                /\ audit[i].action = logs[i].action
                /\ audit[i].user_id = logs[i].user_id
                /\ audit[i].details = logs[i].details
          /\ Len(models) = Len(mods)
          /\ \A i \in DOMAIN models :
                /\ models[i].name = mods[i].name
                /\ models[i].criticality = mods[i].criticality
                /\ models[i].type = mods[i].type
                /\ models[i].region = mods[i].region
    /\ \A k \in DOMAIN ledger :
          /\ pc[ledger[k].n] = "done" /\ ~Failed(err[ledger[k].n])
          /\ ledger[k].rows # <<>>
          /\ OwnRows(ledger[k].n, ledger[k].rows)
          /\ \A l \in DOMAIN ledger : ledger[l].n = ledger[k].n => l = k
    /\ \A p \in Requests :
          /\ (pc[p] = "done" /\ req[p].kind = "register" /\ resp[p].status = 200
                /\ ~Failed(err[p])) => \E k \in DOMAIN ledger : ledger[k].n = p
          /\ InHandler(p) => (session[p] # <<>> /\ OwnRows(p, session[p]))
          /\ ~InHandler(p) => session[p] = <<>>

C10_Witness ==
    /\ Len(ledger) = 2
    /\ ledger[1].n > ledger[2].n
    /\ \E p \in Requests : Failed(err[p]) /\ p < ledger[1].n

====
